---- MODULE Spec2Model ----
(***************************************************************************)
(* wireless-dev-cli (src/src/index.ts): a command line wrapper around the  *)
(* adb device bridge.  The module models                                   *)
(*   - the discovery sweep discoverDevices (specification Spec), and       *)
(*   - the command handlers working on the adb connection table and the    *)
(*     preference store config / CONFIG_FILE (specification SpecCli).      *)
(* Text (addresses, device identifiers, command output) is modelled as     *)
(* sequences of one-character strings, so that substring, prefix, trim     *)
(* and parseInt are computed as the program computes them.                 *)
(***************************************************************************)
EXTENDS Integers, Sequences, FiniteSets, TLC

(* ------------------------------ bounds -------------------------------- *)

\* The sweep loop runs "for (i = 1; i < 255; i++)"; the model stops it at
\* SweepEnd instead of 255.
SweepEnd == 5

(* ------------------------------- text --------------------------------- *)

DigitChars == <<"0", "1", "2", "3", "4", "5", "6", "7", "8", "9">>

\* `${i}`: the decimal digits of a natural number.
RECURSIVE ToStr(_)
ToStr(n) ==
  IF n < 10 THEN <<DigitChars[n + 1]>>
  ELSE ToStr(n \div 10) \o <<DigitChars[(n % 10) + 1]>>

\* String.prototype.includes
includes(s, t) ==
  \E k \in 0..(Len(s) - Len(t)) : SubSeq(s, k + 1, k + Len(t)) = t

\* String.prototype.startsWith
startsWith(s, t) ==
  Len(t) <= Len(s) /\ SubSeq(s, 1, Len(t)) = t

\* String.prototype.lastIndexOf (0-based, -1 when absent)
lastIndexOf(s, c) ==
  LET hits == {k \in 1..Len(s) : s[k] = c}
  IN  IF hits = {} THEN -1
      ELSE (CHOOSE k \in hits : \A m \in hits : m <= k) - 1

\* String.prototype.substring(0, n)
substring0(s, n) == SubSeq(s, 1, n)

Port5555 == <<":", "5", "5", "5", "5">>

Whitespace == {" ", "\n", "\t", "\r"}

\* String.prototype.trim
RECURSIVE trim(_)
trim(s) ==
  IF s = <<>> THEN s
  ELSE IF s[1] \in Whitespace THEN trim(Tail(s))
  ELSE IF s[Len(s)] \in Whitespace THEN trim(SubSeq(s, 1, Len(s) - 1))
  ELSE s

\* s.split(c)[0]: the text before the first c, all of s when there is none.
splitFirst(s, c) ==
  LET hits == {k \in 1..Len(s) : s[k] = c}
  IN  IF hits = {} THEN s
      ELSE SubSeq(s, 1, (CHOOSE k \in hits : \A m \in hits : k <= m) - 1)

\* A number as parseInt returns it: NaN, or a value.
NaN == [nan |-> TRUE, value |-> 0]
Num(v) == [nan |-> FALSE, value |-> v]

DigitValue(ch) == CHOOSE d \in 0..9 : DigitChars[d + 1] = ch

RECURSIVE DigitsValue(_)
DigitsValue(s) ==
  IF s = <<>> THEN 0
  ELSE 10 * DigitsValue(SubSeq(s, 1, Len(s) - 1)) + DigitValue(s[Len(s)])

\* parseInt on unsigned text: the value of the leading digits, NaN when the
\* text does not start with a digit.
parseInt(s) ==
  LET t == trim(s)
      isDigit(ch) == \E d \in 1..10 : DigitChars[d] = ch
      n == CHOOSE n \in 0..Len(t) :
             /\ \A k \in 1..n : isDigit(t[k])
             /\ n < Len(t) => ~isDigit(t[n + 1])
  IN  IF n = 0 THEN NaN ELSE Num(DigitsValue(SubSeq(t, 1, n)))

(* ------------------------- the environment ---------------------------- *)

Loopback == <<"1", "2", "7", ".", "0", ".", "0", ".", "1">>
Ip10_0_0_1 == <<"1", "0", ".", "0", ".", "0", ".", "1">>
Ip10_0_0_2 == <<"1", "0", ".", "0", ".", "0", ".", "2">>
Ip10_0_0_3 == <<"1", "0", ".", "0", ".", "0", ".", "3">>
Ip6 == <<"f", "e", "8", "0", ":", ":", "1">>

\* os.networkInterfaces(), flattened in iteration order.
LoIface == [family |-> "IPv4", internal |-> TRUE, address |-> Loopback]
InterfaceLists ==
  { <<LoIface>>,
    <<LoIface, [family |-> "IPv6", internal |-> FALSE, address |-> Ip6],
      [family |-> "IPv4", internal |-> FALSE, address |-> Ip10_0_0_2]>>,
    <<[family |-> "IPv4", internal |-> FALSE, address |-> Ip10_0_0_1],
      [family |-> "IPv4", internal |-> FALSE, address |-> Ip10_0_0_2]>> }

\* Lines of "adb devices" the bridge may start with: a USB serial, and two
\* wireless devices of the subnet, one of them offline.
UsbSerial == <<"R", "5">>
Dev3 == <<"1", "0", ".", "0", ".", "0", ".", "3">> \o Port5555
Dev12 == <<"1", "0", ".", "0", ".", "0", ".", "1", "2">> \o Port5555
SweepDevices ==
  { [id |-> UsbSerial, status |-> "device"],
    [id |-> Dev3, status |-> "device"],
    [id |-> Dev12, status |-> "offline"] }

\* "adb -s <id> shell getprop ro.product.model", already trimmed; "" when
\* the property is empty.
ProductModel(id) == IF id = UsbSerial THEN "Pixel" ELSE ""

(* ------------------------------ state --------------------------------- *)

VARIABLES
  interfaces,        \* what os.networkInterfaces() returns
  adbTable,          \* the bridge's device table: what "adb devices" lists
  adbAtStart,        \* that table as it was when the program started
  pc,                \* discoverDevices: "start", "loop", "completed", "failed"
  localIp, ipBase,   \* locals of discoverDevices
  i,                 \* the loop counter
  connectedDevices,  \* per candidate, the listing it was checked against
  discoveredDevices, \* the result array
  promises,          \* the probes launched: address -> state of its promise
  returned,          \* the value discoverDevices returned
  configFile,        \* CONFIG_FILE on disk
  config,            \* the config object of the process of the last command
  now,               \* the clock new Date() reads
  cmd,               \* the last command line: name and options
  execs,             \* what the bridge and the disk answered to that command
  log,               \* what it printed and spawned, in order
  ret                \* what its worker function returned, "none" without one

sweepVars ==
  <<pc, localIp, ipBase, i, connectedDevices, discoveredDevices, promises,
    returned>>

cliVars == <<configFile, config, now, cmd, execs, log, ret>>

vars == <<interfaces, adbTable, adbAtStart, sweepVars, cliVars>>

(* --------------------------- pure functions --------------------------- *)

\* "let config = {}": no knownDevices key.
EmptyConfig == [defined |-> FALSE, knownDevices |-> <<>>]

\* Lines 48-55: the config a process starts with.  A missing file leaves {},
\* a file that does not parse is reported and leaves {} too.
LoadConfig(file) ==
  IF file.state = "json" THEN file.data ELSE EmptyConfig

\* Lines 57-59: saveConfig writes the whole config object.
saveConfig(cfg) == [state |-> "json", data |-> cfg]

\* An option that was not given, and an invocation that was not made.
NoOption == <<"<none>">>
NotRun == <<"<not run>">>
\* An invocation that rejected (non-zero exit, timeout, missing executable).
ExecThrows == <<"<throws>">>

\* The answers of a command that asked nothing.
Quiet ==
  [adbInstalled |-> TRUE, cmdListOk |-> TRUE, cmdPropsOk |-> TRUE,
   listOk |-> TRUE, propsOk |-> TRUE, version |-> NotRun, wifiIp |-> NotRun,
   tcpipOk |-> TRUE, writeOk |-> TRUE, stdout |-> NotRun, pick |-> NoOption]

\* getLocalIpAddress: the first external IPv4 address, else the loopback.
getLocalIpAddress(nets) ==
  LET ok == {k \in 1..Len(nets) :
               nets[k].family = "IPv4" /\ ~nets[k].internal}
  IN  IF ok = {} THEN Loopback
      ELSE nets[CHOOSE k \in ok : \A m \in ok : k <= m].address

\* getConnectedDevices: the parsed listing.  listOk is FALSE when the
\* "adb devices" invocation rejects: the catch returns [].  propsOk is FALSE
\* when the getprop invocations of this listing reject: a device is then
\* listed without model and wireless flag (the inner catch, lines 101-102).
getConnectedDevices(table, listOk, propsOk) ==
  IF ~listOk THEN {}
  ELSE { [id |-> d.id, status |-> d.status,
          model |-> IF d.status = "device" /\ propsOk
                    THEN ProductModel(d.id) ELSE "",
          wireless |-> d.status = "device" /\ propsOk /\ includes(d.id, <<":">>)]
         : d \in table }

\* A listing test that compares whole identifiers.
isAlreadyConnectedExact(devices, ip) ==
  \E device \in devices : device.id = ip

\* A listing test that compares the subnet prefix only.
isAlreadyConnectedSubnet(devices, ip) ==
  \E device \in devices :
    startsWith(device.id, substring0(ip, lastIndexOf(ip, ".") + 1))

\* The test of discoverDevices on a candidate address.
isAlreadyConnected(devices, ip) ==
  \E device \in devices : includes(device.id, ip) \/ startsWith(device.id, ip)

\* The branches without the test for the host's own address.
ClassifyNoSelf(devices, ip, local) ==
  IF isAlreadyConnected(devices, ip) THEN "connected" ELSE "probe"

\* The branch discoverDevices takes for a candidate (lines 134-138).
Classify(devices, ip, local) ==
  IF isAlreadyConnected(devices, ip) THEN "connected"
  ELSE IF ip = local THEN "self"
  ELSE "probe"

\* The host's own address recorded as connected as well.
recordsConnectedOrSelf(branch) == branch # "probe"

\* Line 135: only the first branch records the candidate as connected.
recordsConnected(branch) == branch = "connected"

\* A probe launched for every candidate but the host itself.
launchesProbeUnlessSelf(branch) == branch # "self"

\* Lines 138-139: only the last branch launches a probe.
launchesProbe(branch) == branch = "probe"

\* Lines 141-143: the continuation of a probe that succeeded.
onFulfilled(list, ip) == Append(list, [ip |-> ip, status |-> "discoverable"])

\* A failure continuation that records the host all the same.
onRejectedRecords(list, ip) ==
  Append(list, [ip |-> ip, status |-> "discoverable"])

\* Lines 144-145: the continuation of a probe that failed or timed out.
onRejected(list, ip) == list

\* A return that awaits nothing.
NoneAwaited(ps) == TRUE

\* await Promise.allSettled(promises)
AllSettled(ps) == \A a \in DOMAIN ps : ps[a] # "pending"

(* ------------------------- discoverDevices ---------------------------- *)

\* The process before any command has run.
NoCommand ==
  /\ config = EmptyConfig
  /\ now = 1
  /\ cmd = [name |-> "none", device |-> NoOption, ip |-> NoOption]
  /\ execs = Quiet
  /\ log = <<>>
  /\ ret = "none"

\* discoverDevices is entered, by the discover command with the bridge
\* installed.
Init ==
  /\ interfaces \in InterfaceLists
  /\ adbTable \in SUBSET SweepDevices
  /\ adbAtStart = adbTable
  /\ pc = "start"
  /\ localIp = <<>>
  /\ ipBase = <<>>
  /\ i = 1
  /\ connectedDevices = <<>>
  /\ discoveredDevices = <<>>
  /\ promises = <<>>
  /\ returned = <<>>
  /\ configFile = [state |-> "absent", data |-> EmptyConfig]
  /\ NoCommand

\* Lines 120-124: the local address and its prefix.
DiscoverBegin ==
  /\ pc = "start"
  /\ localIp' = getLocalIpAddress(interfaces)
  /\ ipBase' = substring0(localIp', lastIndexOf(localIp', ".") + 1)
  /\ pc' = "loop"
  /\ UNCHANGED <<interfaces, adbAtStart, adbTable, i, connectedDevices,
                 discoveredDevices, promises, returned>>
  /\ UNCHANGED cliVars

\* Lines 153-157: os.networkInterfaces() throws; the catch reports failure.
DiscoverThrow ==
  /\ pc = "start"
  /\ pc' = "failed"
  /\ returned' = <<>>
  /\ UNCHANGED <<interfaces, adbAtStart, adbTable, localIp, ipBase, i, connectedDevices,
                 discoveredDevices, promises>>
  /\ UNCHANGED cliVars

\* Lines 126-148: one iteration of the loop.
SweepStep ==
  /\ pc = "loop"
  /\ i < SweepEnd
  /\ \E listOk \in BOOLEAN, propsOk \in BOOLEAN :
       LET ip == ipBase \o ToStr(i)
           devices == getConnectedDevices(adbTable, listOk, propsOk)
           branch == Classify(devices, ip, localIp)
       IN  /\ connectedDevices' =
                Append(connectedDevices,
                       [ok |-> listOk, ids |-> {d.id : d \in devices}])
           /\ discoveredDevices' =
                IF recordsConnected(branch)
                THEN Append(discoveredDevices, [ip |-> ip, status |-> "connected"])
                ELSE discoveredDevices
           /\ promises' =
                IF launchesProbe(branch) THEN (ip :> "pending") @@ promises
                ELSE promises
  /\ i' = i + 1
  /\ UNCHANGED <<interfaces, adbAtStart, adbTable, pc, localIp, ipBase, returned>>
  /\ UNCHANGED cliVars

\* Lines 140-143: "adb connect ip:5555" exits 0 within the timeout.  Whether
\* the bridge then lists the host is the bridge's affair (joins).
ProbeResolve ==
  /\ \E ip \in DOMAIN promises :
       /\ promises[ip] = "pending"
       /\ promises' = [promises EXCEPT ![ip] = "fulfilled"]
       /\ discoveredDevices' = onFulfilled(discoveredDevices, ip)
       /\ \E joins \in BOOLEAN :
            adbTable' = IF joins
                        THEN adbTable \cup {[id |-> ip \o Port5555, status |-> "device"]}
                        ELSE adbTable
  /\ UNCHANGED <<interfaces, adbAtStart, pc, localIp, ipBase, i, connectedDevices, returned>>
  /\ UNCHANGED cliVars

\* Lines 144-145: the attempt errors or times out; the catch absorbs it.
ProbeReject ==
  /\ \E ip \in DOMAIN promises :
       /\ promises[ip] = "pending"
       /\ promises' = [promises EXCEPT ![ip] = "rejected"]
       /\ discoveredDevices' = onRejected(discoveredDevices, ip)
  /\ UNCHANGED <<interfaces, adbAtStart, adbTable, pc, localIp, ipBase, i, connectedDevices,
                 returned>>
  /\ UNCHANGED cliVars

\* Lines 150-152: the join, then the return.
DiscoverComplete ==
  /\ pc = "loop"
  /\ i = SweepEnd
  /\ AllSettled(promises)
  /\ pc' = "completed"
  /\ returned' = discoveredDevices
  /\ UNCHANGED <<interfaces, adbAtStart, adbTable, localIp, ipBase, i, connectedDevices,
                 discoveredDevices, promises>>
  /\ UNCHANGED cliVars

Next ==
  \/ DiscoverBegin
  \/ DiscoverThrow
  \/ SweepStep
  \/ ProbeResolve
  \/ ProbeReject
  \/ DiscoverComplete

Spec == Init /\ [][Next]_vars

(* --------------------------- the commands ----------------------------- *)

\* The commands run one after another, each in a process of its own that
\* loads CONFIG_FILE when it starts; MaxCommands bounds their number.
MaxCommands == 2

AbsentSerial == <<"Z", "9">>
Addr7 == <<"1", "0", ".", "0", ".", "0", ".", "7">>
DeviceOptions == {UsbSerial, Dev3, AbsentSerial}
CliDevices ==
  { [id |-> UsbSerial, status |-> "device"],
    [id |-> Dev3, status |-> "device"] }

\* stdout of "getprop ro.build.version.release".
VersionOutputs == {<<"1", "1", "\n">>, <<"4", ".", "4", "\n">>, <<"\n">>}
\* stdout of the Wi-Fi address pipelines (ip route / ip addr show wlan0).
WifiOutputs == {<<>>, <<"\n">>, <<"1", "0", ".", "0", ".", "0", ".", "7", "\n">>}
\* stdout of "adb connect", without the address it ends with.
ConnectOutputs == {<<"c", "o", "n", "n", "e", "c", "t", "e", "d", " ", "t", "o", " ">>, <<"a", "l", "r", "e", "a", "d", "y", " ", "c", "o", "n", "n", "e", "c", "t", "e", "d", " ", "t", "o", " ">>, <<"f", "a", "i", "l", "e", "d", " ", "t", "o", " ", "c", "o", "n", "n", "e", "c", "t", " ", "t", "o", " ">>}
\* The outcomes of a listing: "adb devices" and the getprop calls after it.
ListingAnswers == {<<TRUE, TRUE>>, <<TRUE, FALSE>>, <<FALSE, TRUE>>}

KnownFiles ==
  { [state |-> "absent", data |-> EmptyConfig],
    [state |-> "corrupt", data |-> EmptyConfig],
    [state |-> "json", data |-> EmptyConfig],
    [state |-> "json", data |-> [defined |-> TRUE, knownDevices |-> <<>>]],
    [state |-> "json",
     data |-> [defined |-> TRUE,
               knownDevices |-> <<[id |-> UsbSerial, ip |-> Addr7 \o Port5555,
                                   model |-> "Pixel", lastConnected |-> 0]>>]] }

\* What a command leaves behind.
Outcome(r, lg, cfg, file, table, ex) ==
  [ret |-> r, log |-> lg, config |-> cfg, file |-> file, table |-> table,
   execs |-> ex]

\* A test for null, which a string never is.
isNull(ip) == FALSE

\* "!ip" on a string (lines 192 and 218).
notIp(ip) == ip = <<>>

\* "androidVersion >= 11" (line 186); a comparison with NaN is false.
atLeast11(v) == ~v.nan /\ v.value >= 11

\* A list started afresh at every push.
pushKnownAfresh(cfg, record) == <<record>>

\* Lines 202-208 and 228-234: the list is created when config has none, and
\* the record pushed.
pushKnown(cfg, record) ==
  Append(IF cfg.defined THEN cfg.knownDevices ELSE <<>>, record)

\* Lines 202-209 and 228-235: the record pushed and the file written, or
\* the writeFileSync that throws into the catch of line 239.
enableRecord(device, deviceId, ip, head, cfg, file, table, t, ex) ==
  LET pushed ==
        [defined |-> TRUE,
         knownDevices |->
           pushKnown(cfg,
                     [id |-> deviceId, ip |-> ip \o Port5555,
                      model |-> IF device.model = "" THEN "Unknown" ELSE device.model,
                      lastConnected |-> t])]
  IN  { Outcome("true", <<head, "wireless-enabled">>, pushed, saveConfig(pushed),
                table, ex),
        Outcome("false", <<head, "wireless-enabled", "error-enabling">>, pushed,
                file, table, [ex EXCEPT !.writeOk = FALSE]) }

\* Lines 189-200 and 215-226: the Wi-Fi address and the switch to TCP mode.
enableWifi(wifiIp, device, deviceId, head, cfg, file, table, t, ex) ==
  LET e3 == [ex EXCEPT !.wifiIp = wifiIp]
      ip == trim(wifiIp)
  IN  IF wifiIp = ExecThrows
      THEN {Outcome("false", <<head, "error-enabling">>, cfg, file, table, e3)}
      ELSE IF notIp(ip)
      THEN {Outcome("false", <<head, "wifi-not-enabled">>, cfg, file, table, e3)}
      ELSE {Outcome("false", <<head, "error-enabling">>, cfg, file, table,
                    [e3 EXCEPT !.tcpipOk = FALSE])}
           \cup enableRecord(device, deviceId, ip, head, cfg, file, table, t, e3)

\* Lines 179-187 and 212-213: a wireless device is left alone; otherwise the
\* platform version selects the branch.
enableFound(device, deviceId, cfg, file, table, t, ex) ==
  IF device.wireless
  THEN {Outcome("true", <<"already-wireless">>, cfg, file, table, ex)}
  ELSE UNION {
         LET e2 == [ex EXCEPT !.version = version]
             androidVersion == parseInt(splitFirst(trim(version), "."))
             head == IF atLeast11(androidVersion)
                     THEN "using-android-11" ELSE "using-legacy"
         IN  IF version = ExecThrows
             THEN {Outcome("false", <<"error-enabling">>, cfg, file, table, e2)}
             ELSE UNION { enableWifi(wifiIp, device, deviceId, head, cfg, file,
                                     table, t, e2)
                          : wifiIp \in WifiOutputs \cup {ExecThrows} }
         : version \in VersionOutputs \cup {ExecThrows} }

\* enableWirelessDebugging (lines 169-243): every outcome it can have.
enableWirelessDebugging(deviceId, cfg, file, table, t, ex) ==
  UNION {
    LET devices == getConnectedDevices(table, a[1], a[2])
        e1 == [ex EXCEPT !.listOk = a[1], !.propsOk = a[2]]
        found == {d \in devices : d.id = deviceId}
    IN  IF found = {}
        THEN {Outcome("false", <<"device-not-found">>, cfg, file, table, e1)}
        ELSE enableFound(CHOOSE d \in found : TRUE, deviceId, cfg, file, table,
                         t, e1)
    : a \in ListingAnswers }

\* A command can be started: no other runs, and the bound allows it.
Idle ==
  /\ pc = "off"
  /\ cmd.name = "none"
  /\ now <= MaxCommands

\* The state a command ends in.
Ran(name, device, ip, o) ==
  /\ cmd' = [name |-> name, device |-> device, ip |-> ip]
  /\ execs' = o.execs
  /\ log' = o.log
  /\ ret' = o.ret
  /\ config' = o.config
  /\ configFile' = o.file
  /\ adbTable' = o.table
  /\ now' = now + 1
  /\ UNCHANGED <<interfaces, adbAtStart, sweepVars>>

\* checkAdbInstalled fails: every command prints the error and returns.
AdbMissing ==
  /\ Idle
  /\ \E name \in {"list", "discover", "connect", "disconnect",
                  "enable-wireless", "info", "qr", "expo-start"} :
       Ran(name, NoOption, NoOption,
           Outcome("none", <<"adb-missing">>, LoadConfig(configFile), configFile,
                   adbTable, [Quiet EXCEPT !.adbInstalled = FALSE]))

\* The spinner of the enable-wireless command (lines 525-529).
Spinner(o) ==
  [o EXCEPT !.log = o.log \o <<IF o.ret = "true" THEN "spinner-succeed"
                                ELSE "spinner-fail">>]

\* The enable-wireless command (lines 486-533).
CmdEnableWireless ==
  /\ Idle
  /\ LET cfg == LoadConfig(configFile) IN
     \/ \E device \in DeviceOptions :
          \E o \in enableWirelessDebugging(device, cfg, configFile, adbTable, now,
                                           Quiet) :
            Ran("enable-wireless", device, NoOption, Spinner(o))
     \/ \E a \in ListingAnswers :
          LET devices == getConnectedDevices(adbTable, a[1], a[2])
              usbDevices == {d \in devices : ~d.wireless /\ d.status = "device"}
              e0 == [Quiet EXCEPT !.cmdListOk = a[1], !.cmdPropsOk = a[2]]
          IN  IF usbDevices = {}
              THEN Ran("enable-wireless", NoOption, NoOption,
                       Outcome("none", <<"no-usb-devices">>, cfg, configFile,
                               adbTable, e0))
              ELSE \E d \in usbDevices :
                     \E o \in enableWirelessDebugging(
                                d.id, cfg, configFile, adbTable, now,
                                [e0 EXCEPT !.pick = d.id]) :
                       Ran("enable-wireless", NoOption, NoOption, Spinner(o))

\* Line 288: the connection URI.
connectionString(ip, port) ==
  <<"a", "d", "b", "w", "i", "r", "e", "l", "e", "s", "s", ":", "/", "/">>
    \o ip \o <<":">> \o port

\* generateConnectionQr (lines 287-292): what it prints, the code of the
\* connection URI in the middle.  No command handler calls it.
generateConnectionQr(ip, port) ==
  <<"scan-this", "qr-code", "or-connect-manually">>

\* The qr command (lines 618-642): the result of enableWirelessDebugging is
\* dropped, and the note is printed.
CmdQr ==
  /\ Idle
  /\ LET cfg == LoadConfig(configFile) IN
     \/ \E device \in DeviceOptions :
          \E o \in enableWirelessDebugging(device, cfg, configFile, adbTable, now,
                                           Quiet) :
            Ran("qr", device, NoOption, [o EXCEPT !.log = o.log \o <<"qr-note">>])
     \/ Ran("qr", NoOption, NoOption,
            Outcome("none", <<"qr-note">>, cfg, configFile, adbTable, Quiet))

\* The expo-start command (lines 644-688): a USB device is switched first,
\* and the development server is spawned.
CmdExpoStart ==
  /\ Idle
  /\ LET cfg == LoadConfig(configFile)
         server == <<"expo-starting", "spawn-expo">>
     IN
     \/ \E device \in DeviceOptions, a \in ListingAnswers :
          LET devices == getConnectedDevices(adbTable, a[1], a[2])
              found == {d \in devices : d.id = device}
              e0 == [Quiet EXCEPT !.cmdListOk = a[1], !.cmdPropsOk = a[2]]
          IN  IF found # {} /\ ~(CHOOSE d \in found : TRUE).wireless
              THEN \E o \in enableWirelessDebugging(device, cfg, configFile,
                                                    adbTable, now, e0) :
                     Ran("expo-start", device, NoOption,
                         [o EXCEPT !.log = <<"usb-enabling">> \o o.log \o server])
              ELSE Ran("expo-start", device, NoOption,
                       Outcome("none", server, cfg, configFile, adbTable, e0))
     \/ Ran("expo-start", NoOption, NoOption,
            Outcome("none", server, cfg, configFile, adbTable, Quiet))

\* The list command (lines 299-338).
CmdList ==
  /\ Idle
  /\ \E a \in ListingAnswers :
       LET devices == getConnectedDevices(adbTable, a[1], a[2])
           e0 == [Quiet EXCEPT !.cmdListOk = a[1], !.cmdPropsOk = a[2]]
       IN  Ran("list", NoOption, NoOption,
               Outcome("none",
                       IF devices = {} THEN <<"no-devices">> ELSE <<"device-table">>,
                       LoadConfig(configFile), configFile, adbTable, e0))

\* The info command (lines 535-616).
CmdInfo ==
  /\ Idle
  /\ \E device \in DeviceOptions \cup {NoOption}, a \in ListingAnswers :
       LET devices == getConnectedDevices(adbTable, a[1], a[2])
           e0 == [Quiet EXCEPT !.cmdListOk = a[1], !.cmdPropsOk = a[2]]
           shown == <<"device-info", "services", "packages">>
           Done(lg, ex) ==
             Ran("info", device, NoOption,
                 Outcome("none", lg, LoadConfig(configFile), configFile,
                         adbTable, ex))
       IN  IF devices = {} THEN Done(<<"no-devices">>, e0)
           ELSE IF device # NoOption
           THEN IF {d \in devices : d.id = device} = {}
                THEN Done(<<"device-not-found">>, e0)
                ELSE Done(shown, e0)
           ELSE IF Cardinality(devices) > 1
           THEN \E d \in devices : Done(shown, [e0 EXCEPT !.pick = d.id])
           ELSE Done(shown, e0)

\* A connect that leaves the known devices as they are.
touchNothing(cfg, ipAndPort, t) == cfg

\* Lines 251-254: the first known device with this address gets the time.
touchKnown(cfg, ipAndPort, t) ==
  LET hits == {k \in 1..Len(cfg.knownDevices) :
                 cfg.knownDevices[k].ip = ipAndPort}
      deviceIndex == CHOOSE k \in hits : \A m \in hits : k <= m
  IN  [cfg EXCEPT !.knownDevices[deviceIndex].lastConnected = t]

\* Whether findIndex finds the address (lines 251-253).
isKnown(cfg, ipAndPort) ==
  /\ cfg.defined
  /\ \E k \in 1..Len(cfg.knownDevices) : cfg.knownDevices[k].ip = ipAndPort

\* connectToDevice (lines 245-265): every outcome it can have.
connectToDevice(ipAndPort, cfg, file, table, t, ex) ==
  UNION {
    LET e1 == [ex EXCEPT !.stdout = stdout]
        joined == table \cup {[id |-> ipAndPort, status |-> "device"]}
        touched == touchKnown(cfg, ipAndPort, t)
    IN  IF stdout = ExecThrows
        THEN {Outcome("false", <<"error-connecting">>, cfg, file, table, e1)}
        ELSE IF ~includes(stdout, <<"c", "o", "n", "n", "e", "c", "t", "e", "d">>)
        THEN {Outcome("false", <<"connect-stdout">>, cfg, file, table, e1)}
        ELSE IF ~isKnown(cfg, ipAndPort)
        THEN {Outcome("true", <<"connect-stdout">>, cfg, file, joined, e1)}
        ELSE {Outcome("true", <<"connect-stdout">>, touched, saveConfig(touched),
                      joined, e1),
              Outcome("false", <<"connect-stdout", "error-connecting">>, touched,
                      file, joined, [e1 EXCEPT !.writeOk = FALSE])}
    : stdout \in ConnectOutputs \cup {ExecThrows} }

\* Lines 420-422: the default port.
withPort(ip) == IF includes(ip, <<":">>) THEN ip ELSE ip \o Port5555

IpOptions == {Addr7, Addr7 \o Port5555, Dev3}

\* The connect command (lines 375-435): the address is the option, or a
\* known device picked from the list, or a valid address typed in.
CmdConnect ==
  /\ Idle
  /\ LET cfg == LoadConfig(configFile)
         picks == IF cfg.defined /\ Len(cfg.knownDevices) > 0
                  THEN {cfg.knownDevices[k].ip : k \in 1..Len(cfg.knownDevices)}
                  ELSE {Addr7, Addr7 \o Port5555}
     IN
     \/ \E ip \in IpOptions :
          \E o \in connectToDevice(withPort(ip), cfg, configFile, adbTable, now,
                                   Quiet) :
            Ran("connect", NoOption, ip, Spinner(o))
     \/ \E ip \in picks :
          \E o \in connectToDevice(withPort(ip), cfg, configFile, adbTable, now,
                                   [Quiet EXCEPT !.pick = ip]) :
            Ran("connect", NoOption, NoOption, Spinner(o))

\* disconnectDevice (lines 267-276): every outcome it can have.
disconnectDevice(ipAndPort, cfg, file, table, ex) ==
  { Outcome("true", <<"disconnect-stdout">>, cfg, file,
            {d \in table : d.id # ipAndPort}, [ex EXCEPT !.stdout = <<>>]),
    Outcome("false", <<"error-disconnecting">>, cfg, file, table,
            [ex EXCEPT !.stdout = ExecThrows]) }

\* The disconnect command (lines 437-484).
CmdDisconnect ==
  /\ Idle
  /\ LET cfg == LoadConfig(configFile) IN
     \/ \E ip \in IpOptions :
          \E o \in disconnectDevice(ip, cfg, configFile, adbTable, Quiet) :
            Ran("disconnect", NoOption, ip, Spinner(o))
     \/ \E a \in ListingAnswers :
          LET devices == getConnectedDevices(adbTable, a[1], a[2])
              wirelessDevices == {d \in devices : d.wireless}
              e0 == [Quiet EXCEPT !.cmdListOk = a[1], !.cmdPropsOk = a[2]]
          IN  IF wirelessDevices = {}
              THEN Ran("disconnect", NoOption, NoOption,
                       Outcome("none", <<"no-wireless-devices">>, cfg,
                               configFile, adbTable, e0))
              ELSE \E d \in wirelessDevices :
                     \E o \in disconnectDevice(d.id, cfg, configFile, adbTable,
                                               [e0 EXCEPT !.pick = d.id]) :
                       Ran("disconnect", NoOption, NoOption, Spinner(o))

\* The hosts of the network that answer "adb connect" while the commands
\* run.
ListeningHosts == {Ip10_0_0_3}

\* discoverDevices run to its end inside the discover command, from
\* candidate k on: every table and result it can end with.  A probe that
\* succeeds may add its host to the table; the host is listed at once, or
\* (late) only after some later candidate.
RECURSIVE sweepResults(_, _, _, _, _, _)
sweepResults(k, base, local, table, late, found) ==
  IF k >= SweepEnd
  THEN {[table |-> table \cup late, found |-> found]}
  ELSE UNION {
    LET ip == base \o ToStr(k)
        listed == IF a[2] THEN table \cup late ELSE table
        waiting == IF a[2] THEN {} ELSE late
        devices == getConnectedDevices(listed, a[1][1], a[1][2])
        branch == Classify(devices, ip, local)
        host == {[id |-> ip \o Port5555, status |-> "device"]}
    IN  IF recordsConnected(branch)
        THEN sweepResults(k + 1, base, local, listed, waiting,
                          Append(found, [ip |-> ip, status |-> "connected"]))
        ELSE IF ~launchesProbe(branch)
        THEN sweepResults(k + 1, base, local, listed, waiting, found)
        ELSE sweepResults(k + 1, base, local, listed, waiting,
                          onRejected(found, ip))
             \cup
             IF ip \notin ListeningHosts THEN {}
             ELSE sweepResults(k + 1, base, local, listed, waiting,
                               onFulfilled(found, ip))
                  \cup sweepResults(k + 1, base, local, listed \cup host,
                                    waiting, onFulfilled(found, ip))
                  \cup sweepResults(k + 1, base, local, listed,
                                    waiting \cup host, onFulfilled(found, ip))
    : a \in ListingAnswers \X BOOLEAN }

\* The discover command (lines 340-373): the sweep, then the table of the
\* hosts found or the note that there are none.
CmdDiscover ==
  /\ Idle
  /\ LET cfg == LoadConfig(configFile)
         local == getLocalIpAddress(interfaces)
         base == substring0(local, lastIndexOf(local, ".") + 1)
     IN
     \/ Ran("discover", NoOption, NoOption,
            Outcome("devices", <<"discovery-failed", "no-discoverable">>, cfg,
                    configFile, adbTable, Quiet))
     \/ \E r \in sweepResults(1, base, local, adbTable, {}, <<>>) :
          Ran("discover", NoOption, NoOption,
              Outcome("devices",
                      <<"discovery-completed",
                        IF r.found = <<>> THEN "no-discoverable"
                        ELSE "discovered-table">>,
                      cfg, configFile, r.table, Quiet))

\* The process of a command ends; the next command starts a new one.
ProcessExit ==
  /\ cmd.name # "none"
  /\ cmd' = [name |-> "none", device |-> NoOption, ip |-> NoOption]
  /\ config' = EmptyConfig
  /\ execs' = Quiet
  /\ log' = <<>>
  /\ ret' = "none"
  /\ UNCHANGED <<interfaces, adbAtStart, adbTable, sweepVars, configFile, now>>

InitCli ==
  /\ interfaces \in InterfaceLists
  /\ adbTable \in SUBSET CliDevices
  /\ adbAtStart = adbTable
  /\ pc = "off"
  /\ localIp = <<>>
  /\ ipBase = <<>>
  /\ i = 1
  /\ connectedDevices = <<>>
  /\ discoveredDevices = <<>>
  /\ promises = <<>>
  /\ returned = <<>>
  /\ configFile \in KnownFiles
  /\ NoCommand

NextCli ==
  \/ AdbMissing
  \/ CmdEnableWireless
  \/ CmdQr
  \/ CmdExpoStart
  \/ CmdList
  \/ CmdInfo
  \/ CmdConnect
  \/ CmdDisconnect
  \/ CmdDiscover
  \/ ProcessExit

SpecCli == InitCli /\ [][NextCli]_vars

(* ------------------------ claims on the sweep ------------------------- *)

Range(list) == {list[k] : k \in 1..Len(list)}

\* The address of the k-th candidate.
Candidate(k) == ipBase \o ToStr(k)

\* C1: a candidate whose address is a substring of an identifier of the
\* listing queried for it is recorded as connected, is never probed in the
\* sweep, and is in the list the sweep returns.
C1_ListedIsConnectedNotProbed ==
  \A k \in 1..Len(connectedDevices) :
    (\E id \in connectedDevices[k].ids : includes(id, Candidate(k)))
      => /\ [ip |-> Candidate(k), status |-> "connected"] \in Range(discoveredDevices)
         /\ Candidate(k) \notin DOMAIN promises
         /\ pc = "completed"
              => [ip |-> Candidate(k), status |-> "connected"] \in Range(returned)

\* C1 happens: with 10.0.0.3:5555 listed, the finished sweep returns
\* 10.0.0.3 as connected and has probed other hosts, not this one.
C1_Witness ==
  /\ pc = "completed"
  /\ [ip |-> Ip10_0_0_3, status |-> "connected"] \in Range(returned)
  /\ Dev3 \in connectedDevices[3].ids
  /\ promises # <<>>
  /\ Ip10_0_0_3 \notin DOMAIN promises

\* C2: the sweep never issues a probe connect to the host's own address.
C2_NeverProbesSelf ==
  pc # "start" => localIp \notin DOMAIN promises

\* C2 happens: the host's address is in the swept range, is not listed, and
\* the finished sweep has probed the other candidates.
C2_Witness ==
  /\ pc = "completed"
  /\ localIp = Ip10_0_0_2
  /\ \A e \in Range(returned) : e.ip # localIp
  /\ Cardinality(DOMAIN promises) = SweepEnd - 2

\* C3: a listing that fails during the sweep aborts it: the candidate is
\* not probed and the sweep does not end in the completed outcome.
C3_ListingFailureAborts ==
  \A k \in 1..Len(connectedDevices) :
    ~connectedDevices[k].ok
      => /\ Candidate(k) \notin DOMAIN promises
         /\ pc # "completed"

\* C4: the sweep returns only when every probe it launched has settled,
\* whatever number of them failed; the failed outcome has no probe at all.
C4_ReturnsAfterAllSettled ==
  /\ pc = "completed"
       => \A a \in DOMAIN promises : promises[a] \in {"fulfilled", "rejected"}
  /\ pc = "failed" => promises = <<>>

\* C4 happens: a finished sweep in which one probe failed and another
\* succeeded.
C4_Witness ==
  /\ pc = "completed"
  /\ \E a, b \in DOMAIN promises :
       promises[a] = "rejected" /\ promises[b] = "fulfilled"

\* C5: no address occurs twice in the result, at any time and in the list
\* returned.
NoDuplicateIp(list) ==
  \A j, k \in 1..Len(list) : j # k => list[j].ip # list[k].ip

C5_NoDuplicateAddresses ==
  NoDuplicateIp(discoveredDevices) /\ NoDuplicateIp(returned)

\* C5 happens: the returned list holds a connected and a discoverable host.
C5_Witness ==
  /\ pc = "completed"
  /\ \E e, f \in Range(returned) :
       e.status = "connected" /\ f.status = "discoverable"

\* C6: a probed host is recorded, as discoverable, exactly when its connect
\* attempt succeeded; a failed attempt leaves no entry and no failed sweep.
C6_DiscoverableIffProbeSucceeded ==
  /\ \A a \in DOMAIN promises :
       /\ [ip |-> a, status |-> "discoverable"] \in Range(discoveredDevices)
            <=> promises[a] = "fulfilled"
       /\ promises[a] # "fulfilled"
            => \A e \in Range(discoveredDevices) : e.ip # a
       /\ pc # "failed"
  /\ \A e \in Range(discoveredDevices) :
       e.status = "discoverable" => e.ip \in DOMAIN promises
  /\ pc = "completed" => returned = discoveredDevices

\* C6 happens: every probe of a finished sweep failed and nothing was
\* recorded, and the sweep completed.
C6_Witness ==
  /\ pc = "completed"
  /\ Cardinality(DOMAIN promises) >= 2
  /\ \A a \in DOMAIN promises : promises[a] = "rejected"
  /\ returned = <<>>

\* What the sweep must return for the k-th candidate, from the table at the
\* start, the outcome of the candidate's listing and that of its probe.
ExpectedEntries(k) ==
  LET ip == Candidate(k) IN
  IF connectedDevices[k].ok /\ \E d \in adbAtStart : includes(d.id, ip)
  THEN {[ip |-> ip, status |-> "connected"]}
  ELSE IF ip # localIp /\ ip \in DOMAIN promises /\ promises[ip] = "fulfilled"
  THEN {[ip |-> ip, status |-> "discoverable"]}
  ELSE {}

\* C12: the set of (address, status) pairs the sweep returns is fixed by
\* the table at the start, the outcome of each listing and the outcome of
\* each probe, whatever the order in which the probes completed and
\* whichever hosts they added to the listings of later candidates.
C12_ResultIsOrderIndependent ==
  pc = "completed"
    => Range(returned) = UNION {ExpectedEntries(k) : k \in 1..Len(connectedDevices)}

\* C12 happens: a probe succeeded while the loop ran, a later candidate was
\* checked against a listing that holds its host, and the sweep finished.
C12_Witness ==
  /\ pc = "completed"
  /\ \E k \in 1..Len(connectedDevices) :
       /\ connectedDevices[k].ids # {}
       /\ \E id \in connectedDevices[k].ids : \A d \in adbAtStart : d.id # id
  /\ \E a \in DOMAIN promises : promises[a] = "rejected"

\* The address part of a device identifier: the text before ":port".
AddressPart(id) == splitFirst(id, ":")

\* The candidates recorded with this address and status.
RecordedAs(ip, status) ==
  {k \in 1..Len(connectedDevices) :
     /\ Candidate(k) = ip
     /\ [ip |-> ip, status |-> status] \in Range(discoveredDevices)}

\* C13, as claimed: every host recorded as connected has exactly the
\* address part of an identifier of the listing queried for it; an address
\* that is only a proper prefix of a listed address is not recorded.
C13_ConnectedIsExactAddress ==
  \A e \in Range(discoveredDevices) :
    e.status = "connected"
      => \E k \in RecordedAs(e.ip, "connected") :
           \E id \in connectedDevices[k].ids : AddressPart(id) = e.ip

\* C13, amended: every host recorded as connected has an address that is a
\* substring of an identifier of the listing queried for it, and was not
\* probed; a proper prefix of a listed address is enough.
C13_ConnectedIsSubstring ==
  \A e \in Range(discoveredDevices) :
    e.status = "connected"
      => /\ \E k \in RecordedAs(e.ip, "connected") :
              \E id \in connectedDevices[k].ids : includes(id, e.ip)
         /\ e.ip \notin DOMAIN promises

\* C13 happens: with 10.0.0.12:5555 the only wireless device listed, the
\* finished sweep of host 10.0.0.1 returns its own address 10.0.0.1 as
\* connected, and has not probed it.
C13_Witness ==
  /\ pc = "completed"
  /\ localIp = Ip10_0_0_1
  /\ [ip |-> Ip10_0_0_1, status |-> "connected"] \in Range(returned)
  /\ \A d \in adbTable : AddressPart(d.id) # Ip10_0_0_1
  /\ Dev12 \in connectedDevices[1].ids
  /\ Ip10_0_0_1 \notin DOMAIN promises

(* ----------------------- claims on the commands ----------------------- *)

\* The address the last connect command handed to connectToDevice.
ConnectTarget == withPort(IF cmd.ip = NoOption THEN execs.pick ELSE cmd.ip)

\* C7, as claimed: after a successful connectToDevice(a) the known devices
\* hold a record for a stamped with the time of the connection, and the
\* store has been written to the file, whether a was known or not.
C7_ConnectAlwaysRecords ==
  [][(cmd'.name = "connect" /\ ret' = "true")
       => /\ \E k \in 1..Len(config'.knownDevices) :
               /\ config'.knownDevices[k].ip = ConnectTarget'
               /\ config'.knownDevices[k].lastConnected = now
          /\ configFile' = saveConfig(config')]_vars

\* C7, amended: after a successful connectToDevice(a), if a record with
\* address a was known, the list has as many records as before, one for a is
\* stamped with the time of the connection and the store is written to the
\* file; if a was not known, the list and the file are left as they were.
C7_ConnectRefreshesKnownOnly ==
  [][(cmd'.name = "connect" /\ ret' = "true")
       => IF isKnown(LoadConfig(configFile), ConnectTarget')
          THEN /\ config'.defined
               /\ Len(config'.knownDevices)
                    = Len(LoadConfig(configFile).knownDevices)
               /\ \E k \in 1..Len(config'.knownDevices) :
                    /\ config'.knownDevices[k].ip = ConnectTarget'
                    /\ config'.knownDevices[k].lastConnected = now
               /\ configFile' = saveConfig(config')
          ELSE /\ config' = LoadConfig(configFile)
               /\ configFile' = configFile]_vars

\* C7 happens: a connect to a known address succeeded; its record, first
\* stamped 0, carries the time of the command and is in the file.
C7_Witness ==
  /\ cmd.name = "connect"
  /\ ret = "true"
  /\ ConnectTarget = Addr7 \o Port5555
  /\ Len(config.knownDevices) >= 1
  /\ config.knownDevices[1].ip = ConnectTarget
  /\ config.knownDevices[1].lastConnected = now - 1
  /\ configFile = saveConfig(config)

\* C8: when the Wi-Fi address query of enableWirelessDebugging returns
\* nothing but white space, on the branch of version 11 and above and on the
\* legacy branch alike, the error is printed, the function returns false,
\* and the known devices and the file are as they were.
C8_EmptyWifiLeavesStore ==
  [][(/\ cmd'.name \in {"enable-wireless", "qr", "expo-start"}
      /\ execs'.wifiIp \notin {NotRun, ExecThrows}
      /\ trim(execs'.wifiIp) = <<>>)
       => /\ ret' = "false"
          /\ \E k \in 1..Len(log') : log'[k] = "wifi-not-enabled"
          /\ \E k \in 1..Len(log') :
               log'[k] = IF atLeast11(parseInt(splitFirst(trim(execs'.version), ".")))
                         THEN "using-android-11" ELSE "using-legacy"
          /\ \A k \in 1..Len(log') : log'[k] # "wireless-enabled"
          /\ config' = LoadConfig(configFile)
          /\ configFile' = configFile]_vars

\* C8 happens: enable-wireless on the USB device of version 11 got an empty
\* Wi-Fi address, failed, and the one known device is still all the file has.
C8_Witness ==
  /\ cmd.name = "enable-wireless"
  /\ cmd.device = UsbSerial
  /\ execs.version = <<"1", "1", "\n">>
  /\ execs.wifiIp = <<>>
  /\ ret = "false"
  /\ log = <<"using-android-11", "wifi-not-enabled", "spinner-fail">>
  /\ configFile.state = "json"
  /\ Len(configFile.data.knownDevices) = 1
  /\ config = configFile.data

\* The last command was given -d with an identifier that the listing it
\* made, which succeeded, does not hold.
RequestedNotListed ==
  /\ cmd.name \in {"enable-wireless", "info", "qr", "expo-start"}
  /\ cmd.device # NoOption
  /\ execs.adbInstalled
  /\ IF cmd.name \in {"info", "expo-start"} THEN execs.cmdListOk ELSE execs.listOk
  /\ \A d \in adbTable : d.id # cmd.device

\* C9: a command given -d with an identifier that is not listed reports the
\* error and does nothing more: no development server, no output of qr.
C9_UnknownDeviceAborts ==
  RequestedNotListed
    => /\ \E k \in 1..Len(log) : log[k] \in {"device-not-found", "no-devices"}
       /\ \A k \in 1..Len(log) : log[k] \notin {"spawn-expo", "qr-note"}

\* C10: a qr command that passed the bridge check and raised no exception
\* has printed the code of the connection URI.
C10_QrPrintsCode ==
  (cmd.name = "qr" /\ execs.adbInstalled)
    => \E k \in 1..Len(log) : log[k] = "qr-code"

\* The records a process started now would load.
StoredKnown == LoadConfig(configFile).knownDevices

\* new is old with every record's id, address and model kept, timestamps
\* kept or set to t, and at most one record appended.
GrowsFrom(old, new, t) ==
  /\ Len(new) >= Len(old)
  /\ Len(new) <= Len(old) + 1
  /\ \A k \in 1..Len(old) :
       /\ new[k].id = old[k].id
       /\ new[k].ip = old[k].ip
       /\ new[k].model = old[k].model
       /\ new[k].lastConnected \in {old[k].lastConnected, t}

\* C11: over any sequence of commands the known-devices list only grows:
\* no command removes a record or changes the id, address or model of an
\* existing one, in the file or in the list the command holds in memory;
\* the only changes are one appended record and refreshed last-connected
\* timestamps.
C11_KnownDevicesAppendOnly ==
  [][ /\ GrowsFrom(StoredKnown, StoredKnown', now)
      /\ cmd'.name # "none" => GrowsFrom(StoredKnown, config'.knownDevices, now)
    ]_vars

\* enable-wireless has appended a second record to the one the file began
\* with, and connect has then refreshed the timestamp of the first.
C11_Witness ==
  /\ cmd.name = "connect"
  /\ Len(StoredKnown) = 2
  /\ StoredKnown[1].model = "Pixel"
  /\ StoredKnown[1].lastConnected = now - 1
  /\ StoredKnown[2].id = UsbSerial
  /\ StoredKnown[2].lastConnected = 1

====
